---- MODULE Spec2Model ----
(***************************************************************************)
(* Model of examples/basic_example_1/__main__.py: the driver script that   *)
(* fabricates measurements for the uniaxial extension of a bar, formulates *)
(* the model cost, drives the inverse solver and plots / saves results.    *)
(*                                                                         *)
(* The script is a straight-line program; `pc` is the statement group it   *)
(* will execute next.  The module-level configuration settings are        *)
(* inputs chosen in Init.  The inverse solver is an opaque collaborator:   *)
(* what is modelled of it is the sequence of calls made on it and its      *)
(* calls back into measurement_setter while one of its methods runs.       *)
(*                                                                         *)
(* Real numbers are exact rationals <<n, d>> (d > 0).  Lengths are in      *)
(* units of 1e-5, so uxD_max is 1 (small) or 10000 (large) units.          *)
(***************************************************************************)
EXTENDS Integers, Sequences, FiniteSets, TLC

\* ------------------------------------------------------------------ bounds

MaxObservations == 3   \* NUM_OBSERVATIONS ranges over 1..MaxObservations
MaxCallbacks == 2      \* measurement_setter calls per solver method call
MaxSubdims == 2        \* using_subdims_T_msr has 1..MaxSubdims entries

\* ------------------------------------------------------- program constants

W == 2                 \* W, L, H = 2.0, 1.0, 1.0
E_target == 1          \* E_target, nu_target = 1.0, 0.3
uxD_max_small == 1     \* 1e-5, in units of 1e-5
uxD_max_large == 10000 \* 1e-1, in units of 1e-5

\* ------------------------------------------------------ exact arithmetic

Rat(n, d) == <<n, d>>
RatEq(a, b) == a[1] * b[2] = b[1] * a[2]
RatLt(a, b) == a[1] * b[2] < b[1] * a[2]
RatAdd(a, b) == <<a[1] * b[2] + b[1] * a[2], a[2] * b[2]>>
RatSub(a, b) == <<a[1] * b[2] - b[1] * a[2], a[2] * b[2]>>
RatMul(a, b) == <<a[1] * b[1], a[2] * b[2]>>
RatDiv(a, b) == IF b[1] > 0 THEN <<a[1] * b[2], a[2] * b[1]>>
                            ELSE <<(0 - a[1]) * b[2], a[2] * (0 - b[1])>>
Zero == Rat(0, 1)

Range(s) == {s[k] : k \in 1..Len(s)}

\* Python indexing of a sequence: 0-based, negative indices count from the end.
ValidIndex(s, i) == (0 - Len(s)) <= i /\ i < Len(s)
PyIndex(s, i) == IF i >= 0 THEN s[i + 1] ELSE s[Len(s) + i + 1]

\* ---------------------------------------------------------------- state

VARIABLES
    FORCE_COST_FORMULATION_METHOD, NUM_OBSERVATIONS, SMALL_DISPLACEMENTS,
    PLOT_RESULTS, SAVE_RESULTS, using_subdims_T_msr,
    pc,
    measurements_Tx, measurements_uxD,
    msr, last_i,
    Q, L, constraint_multipliers, model_parameters, observation_times,
    constructed, solver_observation_times,
    calls, attrs, active, ncb, k,
    reaction_displacement_magnitude_i,
    isdir, isdir_before, figs, figs_open, events

config == <<FORCE_COST_FORMULATION_METHOD, NUM_OBSERVATIONS,
            SMALL_DISPLACEMENTS, PLOT_RESULTS, SAVE_RESULTS,
            using_subdims_T_msr, isdir_before>>
measurements == <<measurements_Tx, measurements_uxD>>
expressions == <<msr, last_i>>
cost == <<Q, L, constraint_multipliers>>
problem == <<model_parameters, observation_times, constructed,
             solver_observation_times>>
solving == <<calls, active, ncb>>
output == <<isdir, figs, figs_open, events>>

vars == <<config, pc, measurements, expressions, cost, problem, solving,
          attrs, k, reaction_displacement_magnitude_i, output>>

\* Values FORCE_COST_FORMULATION_METHOD is drawn from: the two recognised
\* strings and some that are not.
Methods == {"cost", "constraint", "Cost", "penalty", ""}

\* using_subdims_T_msr: the first n traction sub-dimensions, n >= 1.
SubdimLists == {[j \in 1..n |-> j - 1] : n \in 1..MaxSubdims}

Unset == [kind |-> "unset"]
None == [kind |-> "None"]

Init ==
    /\ FORCE_COST_FORMULATION_METHOD \in Methods
    /\ NUM_OBSERVATIONS \in 1..MaxObservations
    /\ SMALL_DISPLACEMENTS \in BOOLEAN
    /\ PLOT_RESULTS \in BOOLEAN
    /\ SAVE_RESULTS \in BOOLEAN
    /\ using_subdims_T_msr \in SubdimLists
    /\ isdir_before \in BOOLEAN
    /\ isdir = isdir_before
    /\ pc = "measurements"
    /\ measurements_Tx = <<>>
    /\ measurements_uxD = <<>>
    /\ msr = [T_msr_value_x |-> Zero, u_msr_ex |-> Zero, uxD_msr_value |-> Zero]
    /\ last_i = <<>>
    /\ Q = Unset
    /\ L = Unset
    /\ constraint_multipliers = <<>>
    /\ model_parameters = <<>>
    /\ observation_times = <<>>
    /\ constructed = <<>>
    /\ solver_observation_times = <<>>
    /\ calls = <<>>
    /\ attrs = {}
    /\ active = "none"
    /\ ncb = 0
    /\ k = 0
    /\ reaction_displacement_magnitude_i = <<>>
    /\ figs = <<>>
    /\ figs_open = {}
    /\ events = <<>>

\* ------------------------------------------- measurements (fabricated)

\* uxD_max: maximum horizontal displacement of the right face.
uxD_max == IF SMALL_DISPLACEMENTS THEN Rat(uxD_max_small, 1)
                                  ELSE Rat(uxD_max_large, 1)
ex_max == RatDiv(uxD_max, Rat(W, 1))
Tx_max == RatMul(Rat(E_target, 1), ex_max)

\* numpy.linspace(start, stop, num) with endpoint=False: step = delta/num.
linspace_no_endpoint(start, stop, num) ==
    LET delta == RatSub(stop, start)
        step == RatDiv(delta, Rat(num, 1))
    IN  [j \in 1..num |-> RatAdd(RatMul(Rat(j - 1, 1), step), start)]

\* numpy.linspace(start, stop, num), endpoint=True: num samples, with
\* step = (stop - start) / (num - 1), y[i] = i * step + start, and the last
\* sample set to stop itself.
linspace(start, stop, num) ==
    LET div == num - 1
        delta == RatSub(stop, start)
        step == IF div > 0 THEN RatDiv(delta, Rat(div, 1)) ELSE Zero
        y == [j \in 1..num |-> RatAdd(RatMul(Rat(j - 1, 1), step), start)]
    IN  IF num > 1 THEN [y EXCEPT ![num] = stop] ELSE y

FabricateMeasurements ==
    /\ pc = "measurements"
    /\ measurements_Tx' = linspace(Zero, Tx_max, NUM_OBSERVATIONS + 1)
    /\ measurements_uxD' = linspace(Zero, uxD_max, NUM_OBSERVATIONS + 1)
    /\ pc' = "cost"
    /\ UNCHANGED <<config, expressions, cost, problem, solving, attrs, k,
                   reaction_displacement_magnitude_i, output>>

\* measurement_setter that forgets the Dirichlet value uxD_msr.
measurement_setter_stale_uxD(m, i) ==
    IF ~ValidIndex(measurements_Tx, i) THEN [raised |-> TRUE, msr |-> m]
    ELSE [raised |-> FALSE,
          msr |-> [m EXCEPT !.T_msr_value_x = PyIndex(measurements_Tx, i),
                            !.u_msr_ex = RatDiv(PyIndex(measurements_uxD, i),
                                                Rat(W, 1))]]

\* measurement_setter(i): the three assignments in order; an index outside
\* the array raises IndexError at the assignment that reads it.
measurement_setter(m, i) ==
    IF ~ValidIndex(measurements_Tx, i) THEN [raised |-> TRUE, msr |-> m]
    ELSE LET m1 == [m EXCEPT !.T_msr_value_x = PyIndex(measurements_Tx, i)]
         IN  IF ~ValidIndex(measurements_uxD, i)
             THEN [raised |-> TRUE, msr |-> m1]
             ELSE [raised |-> FALSE,
                   msr |-> [m1 EXCEPT
                       !.u_msr_ex = RatDiv(PyIndex(measurements_uxD, i),
                                           Rat(W, 1)),
                       !.uxD_msr_value = PyIndex(measurements_uxD, i)]]

\* --------------------------------------------------------- model cost

\* Reaction force misfit: C = [(T_obs[i]-T_msr[i])*ds_msr_T for i in subdims].
C(subdims) == [j \in 1..Len(subdims) |-> [kind |-> "C", subdim |-> subdims[j]]]

\* Constant(1e-9), one object per traction sub-dimension.
Multipliers(subdims) ==
    [j \in 1..Len(subdims) |-> [kind |-> "Constant", id |-> j]]

\* J_c = sum(mult_i*C_i for mult_i, C_i in zip(constraint_multipliers, C)).
J_c(mults, Cs) ==
    LET n == IF Len(mults) < Len(Cs) THEN Len(mults) ELSE Len(Cs)
    IN  [j \in 1..n |-> [mult |-> mults[j], C |-> Cs[j]]]

\* The if / elif / else on FORCE_COST_FORMULATION_METHOD with the else branch
\* falling back to the "cost" formulation instead of raising.
CostFormulation_no_raise(method, subdims) ==
    IF method = "constraint"
    THEN [raises |-> FALSE,
          constraint_multipliers |-> Multipliers(subdims),
          Q |-> [kind |-> "Q", J_u |-> TRUE,
                 J_c |-> J_c(Multipliers(subdims), C(subdims))],
          L |-> None]
    ELSE [raises |-> FALSE, constraint_multipliers |-> <<>>,
          Q |-> [kind |-> "Q", J_u |-> TRUE, J_c |-> <<>>],
          L |-> C(subdims)[1]]

\* The "constraint" branch with a single multiplier whatever the number of
\* traction sub-dimensions.
CostFormulation_one_multiplier(method, subdims) ==
    IF method = "cost"
    THEN [raises |-> FALSE, constraint_multipliers |-> <<>>,
          Q |-> [kind |-> "Q", J_u |-> TRUE, J_c |-> <<>>],
          L |-> C(subdims)[1]]
    ELSE IF method = "constraint"
    THEN [raises |-> FALSE,
          constraint_multipliers |-> Multipliers(<<0>>),
          Q |-> [kind |-> "Q", J_u |-> TRUE,
                 J_c |-> J_c(Multipliers(<<0>>), C(subdims))],
          L |-> None]
    ELSE [raises |-> TRUE, constraint_multipliers |-> <<>>,
          Q |-> Unset, L |-> Unset]

\* The if / elif / else on FORCE_COST_FORMULATION_METHOD.  Q is J_u plus the
\* terms of J_c; L is C[0] or None.
CostFormulation(method, subdims) ==
    IF method = "cost"
    THEN [raises |-> FALSE, constraint_multipliers |-> <<>>,
          Q |-> [kind |-> "Q", J_u |-> TRUE, J_c |-> <<>>],
          L |-> C(subdims)[1]]
    ELSE IF method = "constraint"
    THEN [raises |-> FALSE,
          constraint_multipliers |-> Multipliers(subdims),
          Q |-> [kind |-> "Q", J_u |-> TRUE,
                 J_c |-> J_c(Multipliers(subdims), C(subdims))],
          L |-> None]
    ELSE [raises |-> TRUE, constraint_multipliers |-> <<>>,
          Q |-> Unset, L |-> Unset]

FormulateCost ==
    /\ pc = "cost"
    /\ LET r == CostFormulation(FORCE_COST_FORMULATION_METHOD,
                                using_subdims_T_msr)
       IN  /\ Q' = r.Q
           /\ L' = r.L
           /\ constraint_multipliers' = r.constraint_multipliers
           /\ pc' = IF r.raises THEN "ValueError" ELSE "inverse_problem"
    /\ UNCHANGED <<config, measurements, expressions, problem, solving, attrs,
                   k, reaction_displacement_magnitude_i, output>>

\* ------------------------------------------------------ inverse problem

\* range(a, b) as a sequence.
range(a, b) == IF b > a THEN [j \in 1..(b - a) |-> a + j - 1] ELSE <<>>

\* observation_times one past the last measurement.
ObservationTimes_past_end(n) == range(1, n + 2)

\* observation_times = range(1, NUM_OBSERVATIONS+1)
ObservationTimes(n) == range(1, n + 1)

\* model_parameters, observation_times and the InverseSolverBasic constructor,
\* which keeps the observation times it is given.
ConstructInverseSolverBasic ==
    /\ pc = "inverse_problem"
    /\ model_parameters' = <<"material_parameters", constraint_multipliers>>
    /\ observation_times' = ObservationTimes(NUM_OBSERVATIONS)
    /\ solver_observation_times' = observation_times'
    /\ constructed' = Append(constructed, "InverseSolverBasic")
    /\ pc' = "inverse_solver"
    /\ UNCHANGED <<config, measurements, expressions, cost, solving, attrs, k,
                   reaction_displacement_magnitude_i, output>>

ConstructInverseSolver ==
    /\ pc = "inverse_solver"
    /\ constructed' = Append(constructed, "InverseSolver")
    /\ pc' = "solve"
    /\ k' = 1
    /\ UNCHANGED <<config, measurements, expressions, cost, model_parameters,
                   observation_times, solver_observation_times, solving,
                   attrs, reaction_displacement_magnitude_i, output>>

\* The statements with the initial cost assessment (commented out in the
\* script) switched on.
SolverStatements_initial_cost ==
    << "set_parameters_inverse_solver",
       "assess_model_cost",
       "fit_model_foreach_time",
       "fit_model_forall_times",
       "assess_model_cost",
       "assess_misfit_displacements",
       "assess_misfit_reaction_forces",
       "observe_f_obs",
       "observe_f_msr",
       "view_cumsum_D2JDm2" >>

\* The statements with one more solver method used after the fits.
SolverStatements_extra_method ==
    << "set_parameters_inverse_solver",
       "fit_model_foreach_time",
       "fit_model_forall_times",
       "assess_model_cost",
       "assess_misfit_displacements",
       "assess_misfit_reaction_forces",
       "observe_f_obs",
       "observe_f_msr",
       "view_cumsum_D2JDm2",
       "view_cumsum_DJDm" >>

\* The calls on inverse_solver between its construction and the __main__
\* block, in program order.
SolverStatements ==
    << "set_parameters_inverse_solver",
       "fit_model_foreach_time",
       "fit_model_forall_times",
       "assess_model_cost",
       "assess_misfit_displacements",
       "assess_misfit_reaction_forces",
       "observe_f_obs",
       "observe_f_msr",
       "view_cumsum_D2JDm2" >>

\* The script calls the k-th solver method.
CallSolver ==
    /\ pc = "solve"
    /\ active = "none"
    /\ k <= Len(SolverStatements)
    /\ active' = SolverStatements[k]
    /\ calls' = Append(calls, SolverStatements[k])
    /\ ncb' = 0
    /\ UNCHANGED <<config, pc, measurements, expressions, cost, problem,
                   attrs, k, reaction_displacement_magnitude_i, output>>

\* While one of its methods runs, the solver sets the measurements at one of
\* its observation times through the measurement_setter it was given.
MeasurementSetterCallback ==
    /\ active # "none"
    /\ ncb < MaxCallbacks
    /\ \E t \in Range(solver_observation_times) :
         LET r == measurement_setter(msr, t)
         IN  /\ msr' = r.msr
             /\ IF r.raised
                THEN /\ pc' = "IndexError"
                     /\ active' = "none"
                     /\ last_i' = last_i
                ELSE /\ pc' = pc
                     /\ active' = active
                     /\ last_i' = <<t>>
    /\ ncb' = ncb + 1
    /\ UNCHANGED <<config, measurements, cost, problem, calls, attrs, k,
                   reaction_displacement_magnitude_i, output>>

\* The k-th solver method returns.
ReturnSolver ==
    /\ pc = "solve"
    /\ active # "none"
    /\ active' = "none"
    /\ k' = k + 1
    /\ pc' = IF k = Len(SolverStatements) THEN "main" ELSE "solve"
    /\ UNCHANGED <<config, measurements, expressions, cost, problem, calls,
                   ncb, attrs, reaction_displacement_magnitude_i, output>>

\* ------------------------------------------------------- __main__ block

\* figname of the figures plot_everything makes, in the order it makes them.
FigNames ==
    << "Fitted Model Parameters for Each Observation Time",
       "Fitted Model Parameters for all Observation Times",
       "Model Cost",
       "Model Cost Derivatives",
       "Reaction Force Misfit Error",
       "Displacement Field Misfit Error",
       "Reaction Force-Displacement Curve" >>

Ev(op, handle, name, ext, t) ==
    [op |-> op, handle |-> handle, name |-> name, ext |-> ext, t |-> t]

\* `if PLOT_RESULTS:` in place of `if PLOT_RESULTS or SAVE_RESULTS:`.
ShouldPlot_plot_only == PLOT_RESULTS

\* if PLOT_RESULTS or SAVE_RESULTS:
ShouldPlot == PLOT_RESULTS \/ SAVE_RESULTS

\* if not PLOT_RESULTS: plt.close('all')
ShouldClose == ~PLOT_RESULTS

\* The statements of the __main__ block before the plotting: the values picked
\* for printing, among them [measurements_uxD[t] for t in observation_times].
MainBlock ==
    /\ pc = "main"
    /\ IF \A j \in 1..Len(observation_times) :
             ValidIndex(measurements_uxD, observation_times[j])
       THEN /\ reaction_displacement_magnitude_i' =
                  [j \in 1..Len(observation_times) |->
                      PyIndex(measurements_uxD, observation_times[j])]
            /\ pc' = IF ShouldPlot THEN "plot" ELSE "done"
       ELSE /\ reaction_displacement_magnitude_i' =
                  reaction_displacement_magnitude_i
            /\ pc' = "IndexError"
    /\ UNCHANGED <<config, measurements, expressions, cost, problem, solving,
                   attrs, k, output>>

\* plot_everything(): closes all figures, makes one figure per plot and
\* returns the (handle, name) pairs.
PlotEverything ==
    /\ pc = "plot"
    /\ figs' = [j \in 1..Len(FigNames) |-> <<j, FigNames[j]>>]
    /\ figs_open' = 1..Len(FigNames)
    /\ events' = Append(events, Ev("plot_everything", 0, "", "", 0))
    /\ pc' = IF SAVE_RESULTS THEN "makedirs" ELSE "done"
    /\ UNCHANGED <<config, measurements, expressions, cost, problem, solving,
                   attrs, k, reaction_displacement_magnitude_i, isdir>>

\* if not os.path.isdir(RESULTS_DIR): os.makedirs(RESULTS_DIR)
MakeResultsDir ==
    /\ pc = "makedirs"
    /\ isdir' = TRUE
    /\ events' = IF isdir THEN events
                 ELSE Append(events, Ev("makedirs", 0, "", "", 0))
    /\ k' = 1
    /\ pc' = "savefig"
    /\ UNCHANGED <<config, measurements, expressions, cost, problem, solving,
                   attrs, reaction_displacement_magnitude_i, figs, figs_open>>

\* One iteration of the loop over zip(fig_handles, fig_names): the figure is
\* saved as .png, then as .pdf; savefig fails when the directory is missing.
SaveFigure ==
    /\ pc = "savefig"
    /\ k <= Len(figs)
    /\ IF isdir
       THEN /\ events' = events \o
                  << Ev("savefig", figs[k][1], figs[k][2], "png", 0),
                     Ev("savefig", figs[k][1], figs[k][2], "pdf", 0) >>
            /\ k' = k + 1
            /\ pc' = pc
       ELSE /\ events' = events
            /\ k' = k
            /\ pc' = "FileNotFoundError"
    /\ UNCHANGED <<config, measurements, expressions, cost, problem, solving,
                   attrs, reaction_displacement_magnitude_i, isdir, figs,
                   figs_open>>

\* After the loop: the figures are closed unless they are to be shown, and
\* the output file is opened for the loop over inverse_solver.observation_times.
CloseAndOpenOutfile ==
    /\ pc = "savefig"
    /\ k > Len(figs)
    /\ IF ShouldClose
       THEN /\ figs_open' = {}
            /\ events' = Append(events, Ev("close", 0, "", "", 0))
       ELSE /\ figs_open' = figs_open
            /\ events' = events
    /\ attrs' = attrs \cup {"observation_times"}
    /\ k' = 1
    /\ pc' = IF Len(solver_observation_times) = 0 THEN "done" ELSE "write"
    /\ UNCHANGED <<config, measurements, expressions, cost, problem, solving,
                   reaction_displacement_magnitude_i, isdir, figs>>

\* inverse_solver.observe_u(t, copy=False) is called for the k-th time t.
CallObserveU ==
    /\ pc = "write"
    /\ active = "none"
    /\ active' = "observe_u"
    /\ calls' = Append(calls, "observe_u")
    /\ ncb' = 0
    /\ UNCHANGED <<config, pc, measurements, expressions, cost, problem,
                   attrs, k, reaction_displacement_magnitude_i, output>>

\* observe_u returns and `outfile << u` writes the field for time t.
WriteDisplacement ==
    /\ pc = "write"
    /\ active = "observe_u"
    /\ active' = "none"
    /\ events' = Append(events,
                        Ev("write", 0, "u.pvd", "", solver_observation_times[k]))
    /\ k' = k + 1
    /\ pc' = IF k = Len(solver_observation_times) THEN "done" ELSE "write"
    /\ UNCHANGED <<config, measurements, expressions, cost, problem, calls,
                   ncb, attrs, reaction_displacement_magnitude_i, isdir, figs,
                   figs_open>>

Next ==
    \/ FabricateMeasurements
    \/ FormulateCost
    \/ ConstructInverseSolverBasic
    \/ ConstructInverseSolver
    \/ CallSolver
    \/ MeasurementSetterCallback
    \/ ReturnSolver
    \/ MainBlock
    \/ PlotEverything
    \/ MakeResultsDir
    \/ SaveFigure
    \/ CloseAndOpenOutfile
    \/ CallObserveU
    \/ WriteDisplacement

Spec == Init /\ [][Next]_vars

\* ====================================================== properties

Recognised == {"cost", "constraint"}
CostFormulated == pc \notin {"measurements", "cost", "ValueError"}
Count(op) == Cardinality({j \in 1..Len(events) : events[j].op = op})
UsedAPI == Range(calls) \cup attrs

\* C1: for every FORCE_COST_FORMULATION_METHOD other than "cost" and
\* "constraint" the script stops with ValueError at the cost formulation:
\* it never gets past that step, neither solver is constructed, and no solver
\* call, plot or file write happens; for the two recognised values
\* ValueError is never raised.
C1_ValueErrorOnUnrecognisedMethod ==
    /\ FORCE_COST_FORMULATION_METHOD \notin Recognised =>
         /\ pc \in {"measurements", "cost", "ValueError"}
         /\ constructed = <<>>
         /\ calls = <<>>
         /\ attrs = {}
         /\ events = <<>>
         /\ figs = <<>>
         /\ isdir = isdir_before
    /\ FORCE_COST_FORMULATION_METHOD \in Recognised => pc # "ValueError"

C1_Witness ==
    /\ pc = "ValueError"
    /\ FORCE_COST_FORMULATION_METHOD = "Cost"

\* The inverse-solver methods the interface section lists.
ListedAPI ==
    { "fit_model_foreach_time", "fit_model_forall_times", "assess_model_cost",
      "assess_misfit_displacements", "assess_misfit_reaction_forces",
      "observe_f_obs", "observe_f_msr", "view_cumsum_D2JDm2" }

\* C2 as stated: in every complete run the script constructs only
\* InverseSolverBasic and InverseSolver and uses no method or attribute of
\* the solver objects outside the eight listed methods.
C2_OnlyListedAPI ==
    pc = "done" =>
        /\ Range(constructed) \subseteq {"InverseSolverBasic", "InverseSolver"}
        /\ UsedAPI \subseteq ListedAPI

\* C2 amended: the script constructs only InverseSolverBasic and
\* InverseSolver, and uses of the solver objects only the eight listed
\* methods plus set_parameters_inverse_solver, which every complete run
\* calls, and the attribute observation_times and the method observe_u
\* (called once per solver observation time), which a complete run uses when
\* and only when SAVE_RESULTS is true.
C2_OnlyListedAPIAmended ==
    /\ Range(constructed) \subseteq {"InverseSolverBasic", "InverseSolver"}
    /\ UsedAPI \subseteq ListedAPI \cup {"set_parameters_inverse_solver",
                                         "observe_u", "observation_times"}
    /\ pc = "done" =>
         /\ constructed = <<"InverseSolverBasic", "InverseSolver">>
         /\ ListedAPI \cup {"set_parameters_inverse_solver"} \subseteq UsedAPI
         /\ "observe_u" \in UsedAPI <=> SAVE_RESULTS
         /\ "observation_times" \in UsedAPI <=> SAVE_RESULTS

C2_Witness ==
    /\ pc = "done"
    /\ SAVE_RESULTS
    /\ "observe_u" \in Range(calls)
    /\ "observation_times" \in attrs

\* C3: once the measurements exist, the three measurement expressions carry
\* the values of one and the same index: the index of the last
\* measurement_setter call, or index 0 (their initial zeros) when it has not
\* been called.  So T_msr.value_x = measurements_Tx[i],
\* u_msr.ex * W = measurements_uxD[i] and uxD_msr.value = measurements_uxD[i]
\* for that one i, and nothing else moves them off it.
C3_MeasurementsShareLastIndex ==
    pc # "measurements" =>
        LET i == IF last_i = <<>> THEN 0 ELSE last_i[1]
        IN  /\ ValidIndex(measurements_Tx, i)
            /\ ValidIndex(measurements_uxD, i)
            /\ RatEq(msr.T_msr_value_x, PyIndex(measurements_Tx, i))
            /\ RatEq(RatMul(msr.u_msr_ex, Rat(W, 1)),
                     PyIndex(measurements_uxD, i))
            /\ RatEq(msr.uxD_msr_value, PyIndex(measurements_uxD, i))
            /\ RatEq(RatMul(msr.u_msr_ex, Rat(W, 1)), msr.uxD_msr_value)

C3_Witness ==
    /\ active = "fit_model_forall_times"
    /\ ncb = MaxCallbacks
    /\ NUM_OBSERVATIONS >= 2
    /\ last_i = <<1>>
    /\ RatEq(msr.uxD_msr_value, measurements_uxD[2])
    /\ ~RatEq(msr.uxD_msr_value, Zero)

\* C4: once the cost is formulated it has one of two shapes.  In mode "cost"
\* Q is J_u alone, L is the traction misfit of the first traction
\* sub-dimension and there are no constraint multipliers; in mode
\* "constraint" L is None, Q is J_u plus one multiplier-weighted traction
\* misfit per entry of using_subdims_T_msr, each with its own multiplier.
\* model_parameters is [material_parameters, constraint_multipliers], and L
\* is None exactly when there are constraint multipliers.
C4_CostShape ==
    /\ CostFormulated =>
         /\ FORCE_COST_FORMULATION_METHOD \in Recognised
         /\ FORCE_COST_FORMULATION_METHOD = "cost" =>
              /\ Q.kind = "Q" /\ Q.J_u /\ Q.J_c = <<>>
              /\ L # None
              /\ L.kind = "C" /\ L.subdim = using_subdims_T_msr[1]
              /\ constraint_multipliers = <<>>
         /\ FORCE_COST_FORMULATION_METHOD = "constraint" =>
              /\ L = None
              /\ Q.kind = "Q" /\ Q.J_u
              /\ Len(constraint_multipliers) = Len(using_subdims_T_msr)
              /\ Cardinality(Range(constraint_multipliers)) =
                     Len(using_subdims_T_msr)
              /\ Len(Q.J_c) = Len(using_subdims_T_msr)
              /\ \A j \in 1..Len(Q.J_c) :
                     /\ Q.J_c[j].mult = constraint_multipliers[j]
                     /\ Q.J_c[j].C.kind = "C"
                     /\ Q.J_c[j].C.subdim = using_subdims_T_msr[j]
         /\ (L = None) <=> (constraint_multipliers # <<>>)
    /\ constructed # <<>> =>
         /\ Len(model_parameters) = 2
         /\ model_parameters[1] = "material_parameters"
         /\ model_parameters[2] = constraint_multipliers

C4_Witness ==
    /\ pc = "done"
    /\ FORCE_COST_FORMULATION_METHOD = "constraint"
    /\ Len(using_subdims_T_msr) = 2
    /\ Len(constraint_multipliers) = 2
    /\ L = None

\* C5: for every NUM_OBSERVATIONS >= 1 the observation times are
\* 1..NUM_OBSERVATIONS, each a valid index of both measurement arrays (of
\* length NUM_OBSERVATIONS+1), so neither measurement_setter nor the
\* __main__ block ever raises IndexError; index 0 is never an observation time
\* nor set by the solver, and the last observation time selects Tx_max and
\* uxD_max.
C5_ObservationTimesInBounds ==
    /\ pc # "IndexError"
    /\ last_i # <<>> => last_i[1] \in 1..NUM_OBSERVATIONS
    /\ constructed # <<>> =>
         /\ Len(measurements_Tx) = NUM_OBSERVATIONS + 1
         /\ Len(measurements_uxD) = NUM_OBSERVATIONS + 1
         /\ Len(observation_times) = NUM_OBSERVATIONS
         /\ \A j \in 1..Len(observation_times) :
              /\ observation_times[j] = j
              /\ observation_times[j] # 0
              /\ ValidIndex(measurements_Tx, observation_times[j])
              /\ ValidIndex(measurements_uxD, observation_times[j])
         /\ RatEq(PyIndex(measurements_Tx,
                          observation_times[Len(observation_times)]), Tx_max)
         /\ RatEq(PyIndex(measurements_uxD,
                          observation_times[Len(observation_times)]), uxD_max)
    /\ pc \in {"plot", "done"} =>
         /\ Len(reaction_displacement_magnitude_i) = NUM_OBSERVATIONS
         /\ RatEq(reaction_displacement_magnitude_i[NUM_OBSERVATIONS], uxD_max)

C5_Witness ==
    /\ pc = "done"
    /\ NUM_OBSERVATIONS >= 2
    /\ last_i = <<NUM_OBSERVATIONS>>
    /\ RatEq(msr.T_msr_value_x, Tx_max)

\* C6: the fabricated measurements are a proportional load ramp: for every
\* index i in 0..NUM_OBSERVATIONS, measurements_uxD[i] is
\* i * uxD_max / NUM_OBSERVATIONS and measurements_Tx[i] is
\* i * Tx_max / NUM_OBSERVATIONS, with Tx_max = E_target * uxD_max / W; both
\* start at 0, increase strictly with i, and
\* measurements_Tx[i] = E_target * measurements_uxD[i] / W at every index.
C6_ProportionalRamp ==
    pc # "measurements" =>
        LET N == NUM_OBSERVATIONS
            n == Rat(N, 1)
        IN  /\ Len(measurements_uxD) = N + 1
            /\ Len(measurements_Tx) = N + 1
            /\ RatEq(RatMul(Tx_max, Rat(W, 1)),
                     RatMul(Rat(E_target, 1), uxD_max))
            /\ RatEq(PyIndex(measurements_uxD, 0), Zero)
            /\ RatEq(PyIndex(measurements_Tx, 0), Zero)
            /\ \A i \in 0..N :
                 /\ RatEq(RatMul(PyIndex(measurements_uxD, i), n),
                          RatMul(Rat(i, 1), uxD_max))
                 /\ RatEq(RatMul(PyIndex(measurements_Tx, i), n),
                          RatMul(Rat(i, 1), Tx_max))
                 /\ RatEq(RatMul(PyIndex(measurements_Tx, i), Rat(W, 1)),
                          RatMul(Rat(E_target, 1),
                                 PyIndex(measurements_uxD, i)))
            /\ \A i \in 0..(N - 1) :
                 /\ RatLt(PyIndex(measurements_uxD, i),
                          PyIndex(measurements_uxD, i + 1))
                 /\ RatLt(PyIndex(measurements_Tx, i),
                          PyIndex(measurements_Tx, i + 1))

C6_Witness ==
    /\ pc = "cost"
    /\ NUM_OBSERVATIONS = 3
    /\ ~SMALL_DISPLACEMENTS
    /\ Len(measurements_Tx) = 4
    /\ RatEq(measurements_uxD[3], Rat(20000, 3))

Fits == {"fit_model_foreach_time", "fit_model_forall_times"}
Reports == ListedAPI \ Fits

\* C7: the calls on the inverse solver come in a fixed order:
\* set_parameters_inverse_solver before any fit, fit_model_foreach_time
\* (called once, and returned) before fit_model_forall_times, and every
\* assessment, observation and Hessian call (observe_u included) only after
\* fit_model_forall_times has returned and with no later per-time fit, so
\* what is reported is computed after the fit over all observation times.
C7_CallOrder ==
    /\ \A j \in 1..Len(calls) :
         /\ calls[j] \in Fits =>
              \E i \in 1..(j - 1) : calls[i] = "set_parameters_inverse_solver"
         /\ calls[j] = "fit_model_forall_times" =>
              /\ \E i \in 1..(j - 1) : calls[i] = "fit_model_foreach_time"
              /\ \A i \in (j + 1)..Len(calls) : calls[i] \notin Fits
         /\ calls[j] \in Reports \cup {"observe_u"} =>
              \E i \in 1..(j - 1) :
                 /\ calls[i] = "fit_model_forall_times"
                 /\ \A h \in (i + 1)..j : calls[h] \notin Fits
    /\ \A m \in Fits \cup {"set_parameters_inverse_solver"} :
         Cardinality({j \in 1..Len(calls) : calls[j] = m}) <= 1
    /\ active \in Reports \cup {"observe_u"} =>
         \E i \in 1..(Len(calls) - 1) : calls[i] = "fit_model_forall_times"
    /\ pc \in {"main", "plot", "done"} =>
         /\ active = "none"
         /\ \A m \in ListedAPI :
              Cardinality({j \in 1..Len(calls) : calls[j] = m}) = 1

C7_Witness ==
    /\ pc = "done"
    /\ Len(calls) >= 9
    /\ calls[2] = "fit_model_foreach_time"
    /\ calls[3] = "fit_model_forall_times"
    /\ calls[9] = "view_cumsum_D2JDm2"

EventIdx(op) == {j \in 1..Len(events) : events[j].op = op}

\* C8: for all four combinations of PLOT_RESULTS and SAVE_RESULTS:
\* plot_everything is called (once) iff PLOT_RESULTS or SAVE_RESULTS; files
\* are written iff SAVE_RESULTS; when saving, the results directory exists
\* before the first savefig (made when absent, left alone when present),
\* every figure plot_everything returned is saved exactly once as .png and
\* once as .pdf under its own name, the figures are closed after saving iff
\* PLOT_RESULTS is false, and the displacement field is written once per
\* solver observation time, after all figures are saved.
C8_PlotAndSave ==
    /\ pc # "FileNotFoundError"
    /\ EventIdx("savefig") # {} => isdir
    /\ ~SAVE_RESULTS =>
         /\ EventIdx("savefig") \cup EventIdx("write")
                \cup EventIdx("makedirs") = {}
         /\ isdir = isdir_before
    /\ ~(PLOT_RESULTS \/ SAVE_RESULTS) => events = <<>> /\ figs = <<>>
    /\ \A j \in EventIdx("makedirs") : \A h \in EventIdx("savefig") : j < h
    /\ \A j \in EventIdx("savefig") :
         /\ \A h \in EventIdx("write") : j < h
         /\ \A h \in EventIdx("close") : j < h
         /\ \E h \in EventIdx("plot_everything") : h < j
    /\ pc = "done" =>
         /\ Count("plot_everything") =
                (IF PLOT_RESULTS \/ SAVE_RESULTS THEN 1 ELSE 0)
         /\ (EventIdx("savefig") \cup EventIdx("write") # {}) <=> SAVE_RESULTS
         /\ Count("makedirs") =
                (IF SAVE_RESULTS /\ ~isdir_before THEN 1 ELSE 0)
         /\ (PLOT_RESULTS \/ SAVE_RESULTS) =>
              /\ Len(figs) = Len(FigNames)
              /\ \A j \in 1..Len(figs) : figs[j][2] = FigNames[j]
         /\ SAVE_RESULTS =>
              /\ isdir
              /\ Count("savefig") = 2 * Len(figs)
              /\ \A j \in 1..Len(figs) : \A ext \in {"png", "pdf"} :
                   Cardinality({h \in EventIdx("savefig") :
                       /\ events[h].handle = figs[j][1]
                       /\ events[h].name = figs[j][2]
                       /\ events[h].ext = ext}) = 1
              /\ (figs_open = {}) <=> ~PLOT_RESULTS
              /\ Count("close") = (IF PLOT_RESULTS THEN 0 ELSE 1)
              /\ Count("write") = Len(solver_observation_times)
              /\ \A j \in 1..Len(solver_observation_times) :
                   Cardinality({h \in EventIdx("write") :
                       events[h].t = solver_observation_times[j]}) = 1
         /\ (PLOT_RESULTS /\ ~SAVE_RESULTS) =>
              figs_open = 1..Len(FigNames)

C8_Witness ==
    /\ pc = "done"
    /\ SAVE_RESULTS
    /\ ~PLOT_RESULTS
    /\ ~isdir_before
    /\ Count("savefig") = 14
    /\ Count("write") = NUM_OBSERVATIONS
    /\ figs_open = {}
====
